---- MODULE Spec2Model ----
\* A model of soursop/sssampling.py: the divergence functions
\* hellinger_distance and rel_entropy, and the SamplingQuality engine
\* (constructor, truncation, dihedral extraction, binning, PDFs, metrics).
\*
\* Numbers.  A float is a record [nan, v]: v is a fixed-point value counted in
\* 1/Scale, nan marks IEEE NaN.  Angles and degree bin edges are whole degrees.
\* The bin width is counted in units of 1/DegUnits degree (pi/(180*DegUnits)
\* radians), so that widths that are not a whole number of degrees exist.
EXTENDS Integers, Sequences, FiniteSets, TLC

----------------------------------------------------------------------------
\* Bounds of the model.

Scale == 100
DegUnits == 10
MaxDim == 2
MaxVal == 2
MaxTraj == 2
MaxFrames == 4
MaxShift == 1
NRes == 2
WidthSlack == 3

----------------------------------------------------------------------------
\* Floats.

Fin(x) == [nan |-> FALSE, v |-> x]

NaN == [nan |-> TRUE, v |-> 0]

Max(a, b) == IF a >= b THEN a ELSE b

Min(a, b) == IF a <= b THEN a ELSE b

RECURSIVE SqrtSearch(_, _, _)
SqrtSearch(n, lo, hi) ==
  IF lo >= hi THEN lo
  ELSE LET mid == (lo + hi + 1) \div 2
       IN IF mid * mid <= n THEN SqrtSearch(n, mid, hi)
          ELSE SqrtSearch(n, lo, mid - 1)

RECURSIVE SqrtAbove(_, _)
SqrtAbove(n, h) == IF h * h > n THEN h ELSE SqrtAbove(n, 2 * h)

\* floor of the square root of a natural number
ISqrt(n) == SqrtSearch(n, 0, SqrtAbove(n, 1))

\* np.sqrt: NaN for NaN and for a negative argument
NSqrt(x) ==
  IF x.nan \/ x.v < 0 THEN NaN ELSE Fin(ISqrt(x.v * Scale))

NSub(x, y) == IF x.nan \/ y.nan THEN NaN ELSE Fin(x.v - y.v)

NSquare(x) == IF x.nan THEN NaN ELSE Fin((x.v * x.v) \div Scale)

NAdd(x, y) == IF x.nan \/ y.nan THEN NaN ELSE Fin(x.v + y.v)

\* np.sqrt(2)
Sqrt2 == ISqrt(2 * Scale * Scale)

NDivSqrt2(x) == IF x.nan THEN NaN ELSE Fin((x.v * Scale) \div Sqrt2)

----------------------------------------------------------------------------
\* Arrays: a shape and a function from the index tuples of the shape.

Indices(sh) ==
  CASE Len(sh) = 0 -> {<<>>}
    [] Len(sh) = 1 -> {<<i>> : i \in 1..sh[1]}
    [] Len(sh) = 2 -> {<<i, j>> : i \in 1..sh[1], j \in 1..sh[2]}
    [] Len(sh) = 3 -> {<<i, j, k>> : i \in 1..sh[1], j \in 1..sh[2], k \in 1..sh[3]}

Front(sh) == SubSeq(sh, 1, Len(sh) - 1)

Arr(sh, f) == [shape |-> sh, at |-> f]

EmptyArr == Arr(<<>>, [i \in {<<>>} |-> Fin(0)])

\* numpy broadcasting: shapes are aligned at the last axis and padded with 1
Pad(sh, nd) ==
  [k \in 1..nd |-> IF k <= nd - Len(sh) THEN 1 ELSE sh[k - (nd - Len(sh))]]

BroadcastOK(sa, sb) ==
  LET nd == Max(Len(sa), Len(sb))
      pa == Pad(sa, nd)
      pb == Pad(sb, nd)
  IN \A k \in 1..nd : pa[k] = pb[k] \/ pa[k] = 1 \/ pb[k] = 1

BroadcastShape(sa, sb) ==
  LET nd == Max(Len(sa), Len(sb))
      pa == Pad(sa, nd)
      pb == Pad(sb, nd)
  IN [k \in 1..nd |-> Max(pa[k], pb[k])]

\* the element of a that the broadcast puts at index idx of an nd-dimensional result
Take(a, idx, nd) ==
  a.at[[k \in 1..Len(a.shape) |->
          IF a.shape[k] = 1 THEN 1 ELSE idx[k + (nd - Len(a.shape))]]]

Returned(a) == [ok |-> TRUE, err |-> "", val |-> a]

Raised(e) == [ok |-> FALSE, err |-> e, val |-> EmptyArr]

RECURSIVE NSumTo(_, _)
NSumTo(f, n) == IF n = 0 THEN Fin(0) ELSE NAdd(NSumTo(f, n - 1), f[n])

\* np.sum(x, axis=last)
NSumLast(sh, f) ==
  Arr(Front(sh),
      [i \in Indices(Front(sh)) |->
         NSumTo([k \in 1..sh[Len(sh)] |-> f[Append(i, k)]], sh[Len(sh)])])

RECURSIVE NSumSet(_, _)
NSumSet(f, S) ==
  IF S = {} THEN Fin(0)
  ELSE LET i == CHOOSE x \in S : TRUE IN NAdd(f[i], NSumSet(f, S \ {i}))

\* np.sum(x) over every axis: a scalar
NSumAll(sh, f) == Arr(<<>>, [i \in {<<>>} |-> NSumSet(f, Indices(sh))])

\* hellinger_distance(p, q)
hellinger_distance(p, q) ==
  IF ~BroadcastOK(p.shape, q.shape) THEN Raised("ValueError")
  ELSE
    LET sh == BroadcastShape(p.shape, q.shape)
        nd == Len(sh)
        d2 == [i \in Indices(sh) |->
                 NSquare(NSub(NSqrt(Take(p, i, nd)), NSqrt(Take(q, i, nd))))]
        s == IF Len(p.shape) = 3 /\ Len(q.shape) = 3 THEN NSumLast(sh, d2)
             ELSE IF Len(p.shape) = 2 /\ Len(q.shape) = 2 THEN NSumLast(sh, d2)
             ELSE NSumAll(sh, d2)
    IN Returned(Arr(s.shape, [i \in Indices(s.shape) |-> NDivSqrt2(NSqrt(s.at[i]))]))

----------------------------------------------------------------------------
\* Relative entropy.  The logarithm is not representable in fixed point: an
\* entry of rel_entr and a sum of entries is one of
\*   "zero" (exactly 0.0), "fin" (a finite float), "inf" (+infinity), "nan".

\* x * log(x / y) without the convention for x = 0, y = 0
rel_entr_nan_at_zero(x, y) ==
  IF x.nan \/ y.nan THEN "nan"
  ELSE IF x.v > 0 /\ y.v > 0 THEN (IF x.v = y.v THEN "zero" ELSE "fin")
  ELSE IF x.v = 0 /\ y.v > 0 THEN "zero"
  ELSE IF x.v = 0 /\ y.v = 0 THEN "nan"
  ELSE "inf"

\* scipy.special.rel_entr, elementwise
rel_entr(x, y) ==
  IF x.nan \/ y.nan THEN "nan"
  ELSE IF x.v > 0 /\ y.v > 0 THEN (IF x.v = y.v THEN "zero" ELSE "fin")
  ELSE IF x.v = 0 /\ y.v >= 0 THEN "zero"
  ELSE "inf"

\* IEEE sum of a set of entries; rel_entr yields no -infinity
ESum(f, S) ==
  IF \E i \in S : f[i] = "nan" THEN "nan"
  ELSE IF \E i \in S : f[i] = "inf" THEN "inf"
  ELSE IF \E i \in S : f[i] = "fin" THEN "fin"
  ELSE "zero"

ESumLast(sh, f) ==
  Arr(Front(sh),
      [i \in Indices(Front(sh)) |->
         ESum([k \in 1..sh[Len(sh)] |-> f[Append(i, k)]], 1..sh[Len(sh)])])

ESumAll(sh, f) == Arr(<<>>, [i \in {<<>>} |-> ESum(f, Indices(sh))])

\* rel_entropy(p, q)
rel_entropy(p, q) ==
  IF ~BroadcastOK(p.shape, q.shape) THEN Raised("ValueError")
  ELSE
    LET sh == BroadcastShape(p.shape, q.shape)
        nd == Len(sh)
        e == [i \in Indices(sh) |-> rel_entr(Take(p, i, nd), Take(q, i, nd))]
    IN Returned(IF Len(p.shape) = 3 /\ Len(q.shape) = 3 THEN ESumLast(sh, e)
                ELSE IF Len(p.shape) = 2 /\ Len(q.shape) = 2 THEN ESumLast(sh, e)
                ELSE ESumAll(sh, e))

----------------------------------------------------------------------------
\* The SamplingQuality engine.

VARIABLES
  traj_list,                \* frame count of each simulated trajectory file
  polymer_model_traj_list,  \* frame count of each reference trajectory file
  polymer_shift,            \* how the reference data differs from the simulated
  method, bwidth, truncate, \* constructor arguments
  pc,                       \* position of the constructor / engine state
  trajs, polymer_trajs,     \* loaded (and truncated) trajectory handles
  min_length,               \* <<>> until set by the truncation, then <<n>>
  angles,                   \* the four angle tensors, once extracted
  error,                    \* the exception the constructor raised, or ""
  loads,                    \* number of calls of parallel_load_trjs
  out,                      \* the value the last operation returned
  p, q, res                 \* arguments and result of a divergence function call

engineVars == <<traj_list, polymer_model_traj_list, polymer_shift, method, bwidth,
                truncate, pc, trajs, polymer_trajs, min_length, angles, error,
                loads, out>>

pureVars == <<p, q, res>>

vars == <<engineVars, pureVars>>

\* 2*np.pi, in width units
TwoPi == 360 * DegUnits

\* the angles (degrees) a dihedral takes in the model's trajectories
AngleVals == <<-180, -60, 0, 75, 180>>

\* parallel_load_trjs: one handle per path, in the order of the list
parallel_load_trjs(paths, shift) ==
  [i \in 1..Len(paths) |-> [n_frames |-> paths[i], id |-> i, shift |-> shift]]

\* len(traj[0:stop]) for a trajectory of n frames (Python slice semantics)
SliceLen(n, stop) ==
  IF stop < 0 THEN Max(n + stop, 0) ELSE Min(n, stop)

\* SSTrajectory(TRJ=trj.proteinTrajectoryList[proteinID].traj[0:stop])
SSTrajectory(h, stop) ==
  [n_frames |-> SliceLen(h.n_frames, stop), id |-> h.id, shift |-> h.shift]

\* proteinTrajectoryList[proteinID].get_angles(kind)[1]: residues x frames
get_angles(h, kind) ==
  [r \in 1..NRes |->
     [f \in 1..h.n_frames |->
        AngleVals[((h.id + h.shift + r + f * (IF kind = "phi" THEN 1 ELSE 2))
                   % Len(AngleVals)) + 1]]]

\* zip(a, b) stops at the shorter list
ZipLen(a, b) == Min(Len(a), Len(b))

SeqMin(s) == CHOOSE m \in {s[i] : i \in 1..Len(s)} : \A i \in 1..Len(s) : m <= s[i]

\* np.min(lengths) - 1
MinLength(ts, ps) ==
  Min(SeqMin([i \in 1..ZipLen(ts, ps) |-> ts[i].n_frames]),
      SeqMin([i \in 1..ZipLen(ts, ps) |-> ps[i].n_frames])) - 1

\* __truncate_trajectories
truncate_trajectories(ts, ps, stop) ==
  <<[i \in 1..ZipLen(ts, ps) |-> SSTrajectory(ts[i], stop)],
    [i \in 1..ZipLen(ts, ps) |-> SSTrajectory(ps[i], stop)]>>

\* the four lists __compute_dihedrals builds over zip(trajs, polymer_trajs)
DihedralLists(ts, ps) ==
  [psi         |-> [i \in 1..ZipLen(ts, ps) |-> get_angles(ts[i], "psi")],
   polymer_psi |-> [i \in 1..ZipLen(ts, ps) |-> get_angles(ps[i], "psi")],
   phi         |-> [i \in 1..ZipLen(ts, ps) |-> get_angles(ts[i], "phi")],
   polymer_phi |-> [i \in 1..ZipLen(ts, ps) |-> get_angles(ps[i], "phi")]]

\* every series of the four lists has the same number of frames
Rectangular(ts, ps) ==
  \A i, j \in 1..ZipLen(ts, ps) :
    /\ ts[i].n_frames = ts[j].n_frames
    /\ ts[i].n_frames = ps[j].n_frames

\* one slice of np.array([psi, polymer_psi, phi, polymer_phi])
Tensor(list, obj) ==
  [ndim |-> IF Len(list) = 0 THEN 1 ELSE 3, object |-> obj, data |-> list]

Stack(l, obj) ==
  [psi         |-> Tensor(l.psi, obj),
   polymer_psi |-> Tensor(l.polymer_psi, obj),
   phi         |-> Tensor(l.phi, obj),
   polymer_phi |-> Tensor(l.polymer_phi, obj)]

\* before __compute_dihedrals the engine has no angle attributes
NoTensor == [ndim |-> 0, object |-> FALSE, data |-> <<>>]

NoAngles ==
  [psi |-> NoTensor, polymer_psi |-> NoTensor, phi |-> NoTensor, polymer_phi |-> NoTensor]

\* self.bwidth > 2*np.pi or self.bwidth <= 0: both comparisons are false for NaN
BwidthRejected_nan_passes(b) ==
  (~b.nan /\ b.v > TwoPi) \/ (~b.nan /\ b.v <= 0)

\* self.bwidth > 2*np.pi or not (self.bwidth > 0)
BwidthRejected(b) ==
  (~b.nan /\ b.v > TwoPi) \/ ~(~b.nan /\ b.v > 0)

\* np.round(np.rad2deg(self.bwidth)): to the nearest degree, halves to even
RoundDeg(b) ==
  LET d == b.v \div DegUnits
      r == b.v % DegUnits
  IN IF 2 * r < DegUnits THEN d
     ELSE IF 2 * r > DegUnits THEN d + 1
     ELSE IF d % 2 = 0 THEN d ELSE d + 1

\* len(np.arange(start, stop, step)) = ceil((stop - start) / step)
ArangeLen(start, stop, step) == Max(0, (stop - start + step - 1) \div step)

ReturnedSeq(s) == [ok |-> TRUE, err |-> "", val |-> s]

\* get_radian_bins: edges in width units
get_radian_bins(b) ==
  ReturnedSeq([k \in 1..ArangeLen(0 - (TwoPi \div 2), (TwoPi \div 2) + b.v, b.v) |->
                 (k - 1) * b.v - (TwoPi \div 2)])

\* get_degree_bins: edges in degrees
get_degree_bins(b) ==
  LET bd == RoundDeg(b)
  IN IF bd = 0 THEN Raised("ZeroDivisionError")
     ELSE ReturnedSeq([k \in 1..ArangeLen(-180, 180 + bd, bd) |-> (k - 1) * bd - 180])

\* np.histogram(col, bins)[0][i]: the last bin is closed on the right
HistCount(col, bins, i) ==
  Cardinality({f \in 1..Len(col) :
                 /\ bins[i] <= col[f]
                 /\ (col[f] < bins[i + 1] \/ (i = Len(bins) - 1 /\ col[f] = bins[i + 1]))})

RECURSIVE HistTotal(_, _, _)
HistTotal(col, bins, i) ==
  IF i = 0 THEN 0 ELSE HistTotal(col, bins, i - 1) + HistCount(col, bins, i)

\* the density alone, not multiplied by the rounded bin width
Density_unscaled(col, bins, i, mult) ==
  LET total == HistTotal(col, bins, Len(bins) - 1)
  IN IF total = 0 THEN NaN
     ELSE Fin((HistCount(col, bins, i) * Scale) \div ((bins[i + 1] - bins[i]) * total))

\* np.histogram(col, bins, density=True)[0][i] * mult: n / db / n.sum() * mult
Density(col, bins, i, mult) ==
  LET total == HistTotal(col, bins, Len(bins) - 1)
  IN IF total = 0 THEN NaN
     ELSE Fin((HistCount(col, bins, i) * mult * Scale) \div ((bins[i + 1] - bins[i]) * total))

\* compute_pdf(arr, bins)
compute_pdf(arr, bins, b) ==
  IF arr.object THEN Raised("ValueError")
  ELSE IF arr.ndim # 3 THEN Raised("AxisError")
  ELSE LET sh == <<Len(arr.data), NRes, Len(bins) - 1>>
       IN Returned(Arr(sh, [i \in Indices(sh) |->
                              Density(arr.data[i[1]][i[2]], bins, i[3], RoundDeg(b))]))

\* what compute_dihedral_hellingers / compute_dihedral_rel_entropy do with
\* the divergence function named by fn
Metric(fn, x, y) == IF fn = "hellingers" THEN hellinger_distance(x, y) ELSE rel_entropy(x, y)

ReturnedPair(a, b) == [ok |-> TRUE, err |-> "", val |-> [phi |-> a, psi |-> b]]

compute_dihedral(fn, a, b) ==
  LET bins == get_degree_bins(b)
  IN IF ~bins.ok THEN bins
     ELSE LET phi_trj == compute_pdf(a.phi, bins.val, b)
              phi_pol == compute_pdf(a.polymer_phi, bins.val, b)
              psi_trj == compute_pdf(a.psi, bins.val, b)
              psi_pol == compute_pdf(a.polymer_psi, bins.val, b)
          IN IF ~phi_trj.ok THEN phi_trj
             ELSE IF ~phi_pol.ok THEN phi_pol
             ELSE IF ~psi_trj.ok THEN psi_trj
             ELSE IF ~psi_pol.ok THEN psi_pol
             ELSE LET phi_m == Metric(fn, phi_trj.val, phi_pol.val)
                      psi_m == Metric(fn, psi_trj.val, psi_pol.val)
                  IN IF ~phi_m.ok THEN phi_m
                     ELSE IF ~psi_m.ok THEN psi_m
                     ELSE ReturnedPair(phi_m.val, psi_m.val)

\* the trj_pdfs and polymer_pdfs properties
pdfs_of(phi, psi, b) ==
  LET bins == get_degree_bins(b)
  IN IF ~bins.ok THEN bins
     ELSE LET phi_pdf == compute_pdf(phi, bins.val, b)
              psi_pdf == compute_pdf(psi, bins.val, b)
          IN IF ~phi_pdf.ok THEN phi_pdf
             ELSE IF ~psi_pdf.ok THEN psi_pdf
             ELSE ReturnedPair(phi_pdf.val, psi_pdf.val)

----------------------------------------------------------------------------
\* Inputs.

\* lists of at most MaxTraj trajectory files of 1 to MaxFrames frames
TrajLists ==
  UNION {[1..n -> 1..MaxFrames] : n \in 0..MaxTraj}

\* the method names: the supported one, the two unimplemented, an unknown one
Methods == {"dihedral", "rmsd", "p_vects", "contacts"}

\* bin widths, in width units: NaN, a negative one, 0, one that rounds to 0
\* degrees, one that is no whole number of degrees, 90 degrees, 2*pi, above 2*pi
Bwidths ==
  {NaN, Fin(0 - DegUnits), Fin(0), Fin(DegUnits \div 3),
   Fin(45 * DegUnits - (DegUnits \div 2) + 1), Fin(90 * DegUnits),
   Fin(TwoPi), Fin(TwoPi + 1)}

\* every bin width from just below 0 to just above 2*pi, and NaN
AllBwidths == {NaN} \cup {Fin(v) : v \in (0 - WidthSlack)..(TwoPi + WidthSlack)}

NoOut == [op |-> "none", ok |-> TRUE, err |-> "", val |-> <<>>]

NoRes == [fn |-> "none", r |-> Returned(EmptyArr)]

\* the engine before __init__ runs
Unconstructed ==
  /\ pc = "Uninitialized"
  /\ trajs = <<>>
  /\ polymer_trajs = <<>>
  /\ min_length = <<>>
  /\ angles = NoAngles
  /\ error = ""
  /\ loads = 0
  /\ out = NoOut

NoCall ==
  /\ p = EmptyArr
  /\ q = EmptyArr
  /\ res = NoRes

Init ==
  /\ traj_list \in TrajLists
  /\ polymer_model_traj_list \in TrajLists
  /\ polymer_shift \in 0..MaxShift
  /\ method \in Methods
  /\ bwidth \in Bwidths
  /\ truncate \in BOOLEAN
  /\ Unconstructed
  /\ NoCall

\* two pairs of trajectories of three frames, every bin width
InitWidths ==
  /\ traj_list = <<3, 3>>
  /\ polymer_model_traj_list = <<3, 3>>
  /\ polymer_shift = 1
  /\ method \in {"dihedral", "rmsd"}
  /\ bwidth \in AllBwidths
  /\ truncate \in BOOLEAN
  /\ Unconstructed
  /\ NoCall

----------------------------------------------------------------------------
\* SamplingQuality.__init__, statement by statement.

args == <<traj_list, polymer_model_traj_list, polymer_shift, method, bwidth, truncate>>

Fail(e) ==
  /\ pc' = "Failed"
  /\ error' = e

\* self.trajs = parallel_load_trjs(self.traj_list, ...)
LoadTrajs ==
  /\ pc = "Uninitialized"
  /\ trajs' = parallel_load_trjs(traj_list, 0)
  /\ loads' = loads + 1
  /\ pc' = "LoadingPolymer"
  /\ UNCHANGED <<args, polymer_trajs, min_length, angles, error, out, pureVars>>

\* self.polymer_trajs = parallel_load_trjs(self.polymer_model_traj_list, ...)
LoadPolymerTrajs ==
  /\ pc = "LoadingPolymer"
  /\ polymer_trajs' = parallel_load_trjs(polymer_model_traj_list, polymer_shift)
  /\ loads' = loads + 1
  /\ pc' = "Loaded"
  /\ UNCHANGED <<args, trajs, min_length, angles, error, out, pureVars>>

\* if truncate: min_length, then __truncate_trajectories
Truncate ==
  /\ pc = "Loaded"
  /\ truncate
  /\ IF ZipLen(trajs, polymer_trajs) = 0
     THEN /\ Fail("ValueError")
          /\ UNCHANGED <<trajs, polymer_trajs, min_length>>
     ELSE LET m == MinLength(trajs, polymer_trajs)
              t == truncate_trajectories(trajs, polymer_trajs, m)
          IN /\ min_length' = <<m>>
             /\ trajs' = t[1]
             /\ polymer_trajs' = t[2]
             /\ pc' = "Truncated"
             /\ UNCHANGED error
  /\ UNCHANGED <<args, angles, loads, out, pureVars>>

\* the NotImplementedError check and ssutils.validate_keyword_option
CheckMethod ==
  /\ pc = "Truncated" \/ (pc = "Loaded" /\ ~truncate)
  /\ IF method \in {"rmsd", "p_vects"} THEN Fail("NotImplementedError")
     ELSE IF method \notin {"dihedral", "rmsd", "p_vects"} THEN Fail("SSException: method")
     ELSE pc' = "MethodChecked" /\ UNCHANGED error
  /\ UNCHANGED <<args, trajs, polymer_trajs, min_length, angles, loads, out, pureVars>>

\* the bwidth check of the "dihedral" branch
CheckBwidth ==
  /\ pc = "MethodChecked"
  /\ method = "dihedral"
  /\ IF BwidthRejected(bwidth) THEN Fail("SSException: bwidth")
     ELSE pc' = "BwidthChecked" /\ UNCHANGED error
  /\ UNCHANGED <<args, trajs, polymer_trajs, min_length, angles, loads, out, pureVars>>

\* __compute_dihedrals: the four lists, stacked by np.array.  A ragged nest is
\* refused by np.array (ValueError) or becomes an array of objects, as the
\* numpy version has it.
ComputeDihedrals ==
  /\ pc = "BwidthChecked"
  /\ LET l == DihedralLists(trajs, polymer_trajs)
     IN IF Rectangular(trajs, polymer_trajs)
        THEN /\ angles' = Stack(l, FALSE)
             /\ pc' = "Ready"
             /\ UNCHANGED error
        ELSE \/ /\ Fail("ValueError")
                /\ UNCHANGED angles
             \/ /\ angles' = Stack(l, TRUE)
                /\ pc' = "Ready"
                /\ UNCHANGED error
  /\ UNCHANGED <<args, trajs, polymer_trajs, min_length, loads, out, pureVars>>

----------------------------------------------------------------------------
\* The operations of a constructed engine.

Call(name, value) ==
  /\ pc = "Ready"
  /\ out.op = "none"
  /\ out' = [op |-> name, ok |-> value.ok, err |-> value.err, val |-> value.val]
  /\ UNCHANGED <<args, pc, trajs, polymer_trajs, min_length, angles, error, loads, pureVars>>

ComputeDihedralHellingers == Call("compute_dihedral_hellingers", compute_dihedral("hellingers", angles, bwidth))

ComputeDihedralRelEntropy == Call("compute_dihedral_rel_entropy", compute_dihedral("rel_entropy", angles, bwidth))

TrjPdfs == Call("trj_pdfs", pdfs_of(angles.phi, angles.psi, bwidth))

PolymerPdfs == Call("polymer_pdfs", pdfs_of(angles.polymer_phi, angles.polymer_psi, bwidth))

GetRadianBins == Call("get_radian_bins", get_radian_bins(bwidth))

GetDegreeBins == Call("get_degree_bins", get_degree_bins(bwidth))

\* the caller takes the returned value; the engine can be called again
Return ==
  /\ pc = "Ready"
  /\ out.op # "none"
  /\ out' = NoOut
  /\ UNCHANGED <<args, pc, trajs, polymer_trajs, min_length, angles, error, loads, pureVars>>

Construct ==
  \/ LoadTrajs
  \/ LoadPolymerTrajs
  \/ Truncate
  \/ CheckMethod
  \/ CheckBwidth
  \/ ComputeDihedrals

Next ==
  \/ Construct
  \/ ComputeDihedralHellingers
  \/ ComputeDihedralRelEntropy
  \/ TrjPdfs
  \/ PolymerPdfs
  \/ GetRadianBins
  \/ GetDegreeBins
  \/ Return

NextWidths ==
  \/ Construct
  \/ GetRadianBins
  \/ GetDegreeBins
  \/ Return

Spec == Init /\ [][Next]_vars

SpecWidths == InitWidths /\ [][NextWidths]_vars

\* the bin width of 15 degrees (the default) beside those of Bwidths
PdfBwidths == Bwidths \cup {Fin(15 * DegUnits)}

\* the method "dihedral" and a reference trajectory for every simulated one,
\* with the same frame counts
InitPdfs ==
  /\ traj_list \in TrajLists
  /\ polymer_model_traj_list = traj_list
  /\ polymer_shift \in 0..MaxShift
  /\ method = "dihedral"
  /\ bwidth \in PdfBwidths
  /\ truncate \in BOOLEAN
  /\ Unconstructed
  /\ NoCall

SpecPdfs == InitPdfs /\ [][Next]_vars

----------------------------------------------------------------------------
\* Calls of the divergence functions on arrays of one to three axes.

Shapes == UNION {[1..n -> 1..MaxDim] : n \in 1..3}

\* position of an index in row-major order
Flat(idx, sh) ==
  CASE Len(sh) = 1 -> idx[1] - 1
    [] Len(sh) = 2 -> (idx[1] - 1) * sh[2] + (idx[2] - 1)
    [] Len(sh) = 3 -> ((idx[1] - 1) * sh[2] + (idx[2] - 1)) * sh[3] + (idx[3] - 1)

\* the array of shape sh whose entries run through 0, 1/2, .., MaxVal/2
\* from seed in steps of stride
Fill(sh, seed, stride) ==
  Arr(sh, [i \in Indices(sh) |->
             Fin(((seed + stride * Flat(i, sh)) % (MaxVal + 1)) * (Scale \div 2))])

\* non-negative arrays p and q are called with
PdfArrays ==
  {Fill(sh, seed, stride) : sh \in Shapes, seed \in 0..MaxVal, stride \in 0..1}

InitCalls ==
  /\ p \in PdfArrays
  /\ q \in PdfArrays
  /\ res = NoRes
  /\ traj_list = <<>>
  /\ polymer_model_traj_list = <<>>
  /\ polymer_shift = 0
  /\ method = "dihedral"
  /\ bwidth = Fin(15 * DegUnits)
  /\ truncate = FALSE
  /\ Unconstructed

HellingerDistance ==
  /\ res' = [fn |-> "hellinger_distance", r |-> hellinger_distance(p, q)]
  /\ UNCHANGED <<p, q, engineVars>>

RelEntropy ==
  /\ res' = [fn |-> "rel_entropy", r |-> rel_entropy(p, q)]
  /\ UNCHANGED <<p, q, engineVars>>

NextCalls ==
  \/ HellingerDistance
  \/ RelEntropy

SpecCalls == InitCalls /\ [][NextCalls]_vars

----------------------------------------------------------------------------
\* Properties.

InRange(b) == ~b.nan /\ 0 < b.v /\ b.v <= TwoPi

\* C1: a constructor call with method "rmsd" or "p_vects" raises its error
\* before the trajectory loader was called and before any truncation.
C1_UnimplementedMethodFailsBeforeLoading ==
  error = "NotImplementedError" => (loads = 0 /\ min_length = <<>>)

\* C2: with method "dihedral" the bin width check rejects exactly the widths
\* outside (0, 2*pi] (NaN, <= 0, > 2*pi) with a configuration error and lets
\* every width inside pass, 2*pi included; after a rejection no angle tensor
\* exists, so no Ready engine has a bin width outside (0, 2*pi].
C2_BwidthCheckedAtConstruction ==
  /\ [](method = "dihedral" =>
          /\ (pc \in {"BwidthChecked", "Ready"} => InRange(bwidth))
          /\ (angles # NoAngles => InRange(bwidth))
          /\ (error = "SSException: bwidth" => (~InRange(bwidth) /\ angles = NoAngles)))
  /\ [][(pc = "MethodChecked" /\ method = "dihedral") =>
          IF InRange(bwidth)
          THEN pc' = "BwidthChecked" /\ error' = ""
          ELSE pc' = "Failed" /\ error' = "SSException: bwidth" /\ angles' = NoAngles]_vars

\* a width just above 2*pi was rejected after loading and truncation
C2_Witness ==
  /\ method = "dihedral"
  /\ pc = "Failed"
  /\ error = "SSException: bwidth"
  /\ bwidth = Fin(TwoPi + 1)
  /\ min_length # <<>>

\* C3: with truncate=True and non-empty lists, min_length is the minimum frame
\* count over all trajectories of both lists minus 1, and after the truncation
\* every simulated and every reference trajectory has exactly min_length frames.
C3_TruncatedToCommonMinimum ==
  (min_length # <<>> /\ Len(traj_list) > 0 /\ Len(polymer_model_traj_list) > 0) =>
    /\ min_length[1] = SeqMin(traj_list \o polymer_model_traj_list) - 1
    /\ \A i \in 1..Len(trajs) : trajs[i].n_frames = min_length[1]
    /\ \A i \in 1..Len(polymer_trajs) : polymer_trajs[i].n_frames = min_length[1]

\* C4: when the truncation leaves a trajectory without frames, the
\* construction fails and no angle tensors are extracted.
C4_NoFramesAfterTruncationFails ==
  (/\ min_length # <<>>
   /\ \E i \in 1..Len(trajs) : trajs[i].n_frames = 0 \/ polymer_trajs[i].n_frames = 0) =>
    (pc # "Ready" /\ angles = NoAngles)

\* C5: hellinger_distance and rel_entropy fail whenever p and q differ in shape.
C5_ShapeMismatchFails ==
  (res.fn # "none" /\ p.shape # q.shape) => ~res.r.ok

\* C6: a result of compute_dihedral_hellingers / compute_dihedral_rel_entropy
\* has one row for every supplied simulated trajectory and every supplied
\* reference trajectory; a result over a part of them is never returned.
C6_NoPartialResult ==
  (out.op \in {"compute_dihedral_hellingers", "compute_dihedral_rel_entropy"} /\ out.ok) =>
    /\ out.val.phi.shape[1] = Len(traj_list)
    /\ out.val.phi.shape[1] = Len(polymer_model_traj_list)
    /\ out.val.psi.shape[1] = Len(traj_list)
    /\ out.val.psi.shape[1] = Len(polymer_model_traj_list)

\* the bins of the row of p (of q) that entry i of the result reduces
RowBins(i) == {Append(i, k) : k \in 1..p.shape[Len(p.shape)]}

\* C7: for non-negative p and q of equal shape rel_entropy returns no NaN;
\* a bin with p_i = 0 contributes exactly 0, also when q_i = 0, so a row whose
\* p is all zero gives 0; a row with a bin p_i > 0, q_i = 0 gives +infinity.
C7_RelEntropyZeroConvention ==
  (res.fn = "rel_entropy" /\ p.shape = q.shape) =>
    /\ res.r.ok
    /\ res.r.val.shape = Front(p.shape) \/ (Len(p.shape) = 1 /\ res.r.val.shape = <<>>)
    /\ \A j \in Indices(p.shape) :
         p.at[j].v = 0 => rel_entr(p.at[j], q.at[j]) = "zero"
    /\ \A i \in Indices(res.r.val.shape) :
         /\ res.r.val.at[i] # "nan"
         /\ (\E j \in RowBins(i) : p.at[j].v > 0 /\ q.at[j].v = 0) => res.r.val.at[i] = "inf"
         /\ (\A j \in RowBins(i) : p.at[j].v = 0) => res.r.val.at[i] = "zero"

\* a three-axis call with a 0/0 bin and with a p_i > 0, q_i = 0 bin
C7_Witness ==
  /\ res.fn = "rel_entropy"
  /\ p.shape = q.shape
  /\ Len(p.shape) = 3
  /\ \E j \in Indices(p.shape) : p.at[j].v = 0 /\ q.at[j].v = 0
  /\ \E i \in Indices(res.r.val.shape) :
       /\ res.r.val.at[i] = "inf"
       /\ \E j \in RowBins(i) : p.at[j].v > 0 /\ q.at[j].v = 0

InUnitInterval(x) == ~x.nan /\ 0 <= x.v /\ x.v <= Scale

\* C8: every entry of the phi and psi arrays compute_dihedral_hellingers
\* returns lies in [0, 1].
C8_HellingersInUnitInterval ==
  (out.op = "compute_dihedral_hellingers" /\ out.ok) =>
    /\ \A i \in Indices(out.val.phi.shape) : InUnitInterval(out.val.phi.at[i])
    /\ \A i \in Indices(out.val.psi.shape) : InUnitInterval(out.val.psi.at[i])

\* the samples of the series that entry i of a PDF of tensor t belongs to
Series(t, i) == t.data[i[1]][i[2]]

PdfSound(pdf, t) ==
  \A i \in Indices(pdf.shape) :
    /\ ~pdf.at[i].nan
    /\ pdf.at[i].v >= 0
    /\ HistCount(Series(t, i), get_degree_bins(bwidth).val, i[3]) = 0 => pdf.at[i].v = 0

\* C9: compute_pdf returns non-negative values, and exactly 0.0, never NaN,
\* for a bin without samples, also for a series without frames.
C9_PdfNonNegativeNoNaN ==
  /\ (out.op = "trj_pdfs" /\ out.ok) =>
       (PdfSound(out.val.phi, angles.phi) /\ PdfSound(out.val.psi, angles.psi))
  /\ (out.op = "polymer_pdfs" /\ out.ok) =>
       (PdfSound(out.val.phi, angles.polymer_phi) /\ PdfSound(out.val.psi, angles.polymer_psi))

\* C10: for every bin width in (0, 2*pi] get_radian_bins and get_degree_bins
\* both return an edge array, and the two arrays have the same length.
C10_SameNumberOfBins ==
  (InRange(bwidth) /\ out.op \in {"get_radian_bins", "get_degree_bins"}) =>
    /\ out.ok
    /\ get_radian_bins(bwidth).ok
    /\ get_degree_bins(bwidth).ok
    /\ Len(get_radian_bins(bwidth).val) = Len(get_degree_bins(bwidth).val)

\* the sum of the bins of row <<t, r>> of a PDF
RowSum(pdf, t, r) ==
  NSumTo([k \in 1..pdf.shape[3] |-> pdf.at[<<t, r, k>>]], pdf.shape[3])

\* x is the fixed-point value of target, each of n entries rounded down
Near(x, target, n) == ~x.nan /\ target - n <= x.v /\ x.v <= target

\* number of samples of row <<t, r>> of tensor a that fall into the degree bins
RowTotal(a, t, r) ==
  HistTotal(a.data[t][r], get_degree_bins(bwidth).val, Len(get_degree_bins(bwidth).val) - 1)

RowsSumToOne(pdf, a) ==
  \A t \in 1..pdf.shape[1], r \in 1..pdf.shape[2] :
    IF RowTotal(a, t, r) = 0
    THEN \A k \in 1..pdf.shape[3] : pdf.at[<<t, r, k>>].nan
    ELSE Near(RowSum(pdf, t, r), Scale, RowTotal(a, t, r))

RowsSumToInverseWidth(pdf, a) ==
  \A t \in 1..pdf.shape[1], r \in 1..pdf.shape[2] :
    /\ Near(RowSum(pdf, t, r), Scale \div RoundDeg(bwidth), Len(a.data[t][r]))
    /\ ~Near(RowSum(pdf, t, r), Scale, Len(a.data[t][r]))

\* C11 (as stated): every residue row of a PDF computed with the engine's
\* degree bins sums to 1/bwidth_degrees, not to 1.
C11_PdfRowsSumToInverseWidth ==
  /\ (out.op = "trj_pdfs" /\ out.ok) =>
       (RowsSumToInverseWidth(out.val.phi, angles.phi)
        /\ RowsSumToInverseWidth(out.val.psi, angles.psi))
  /\ (out.op = "polymer_pdfs" /\ out.ok) =>
       (RowsSumToInverseWidth(out.val.phi, angles.polymer_phi)
        /\ RowsSumToInverseWidth(out.val.psi, angles.polymer_psi))

\* C11 (amended): every residue row of a PDF computed with the engine's degree
\* bins sums to 1 when its series has a sample in the bins (the density is
\* multiplied by the width of the bins it was divided by), and is NaN in every
\* bin when it has none.
C11_PdfRowsSumToOne ==
  /\ (out.op = "trj_pdfs" /\ out.ok) =>
       (RowsSumToOne(out.val.phi, angles.phi) /\ RowsSumToOne(out.val.psi, angles.psi))
  /\ (out.op = "polymer_pdfs" /\ out.ok) =>
       (RowsSumToOne(out.val.phi, angles.polymer_phi)
        /\ RowsSumToOne(out.val.psi, angles.polymer_psi))

\* a PDF over bins of 45 degrees (a width of 44.6 degrees, rounded) with a row
\* whose samples fall into more than one bin
C11_Witness ==
  /\ out.op = "trj_pdfs"
  /\ out.ok
  /\ RoundDeg(bwidth) = 45
  /\ bwidth.v # 45 * DegUnits
  /\ \E i \in Indices(out.val.phi.shape) :
       ~out.val.phi.at[i].nan /\ 0 < out.val.phi.at[i].v /\ out.val.phi.at[i].v < Scale

====
